---------------------------- MODULE Spec2Model ----------------------------
(***************************************************************************)
(* NodeSage: the boundary-aware chunker (src/src/chunker.ts) and the       *)
(* incremental training pipeline (trainer.ts, src/unnamed/part_008, with   *)
(* the index and manifest store of src/src/store.ts).                      *)
(*                                                                         *)
(* The state machines of the module:                                       *)
(*   ChunkSpec     one call of chunkFile on one file, one loop iteration   *)
(*                 per step (FairChunkSpec: the same, running to its end); *)
(*   Spec          a sequence of train runs over a small source tree, with *)
(*                 the file system changing between and during the runs;   *)
(*   RetrieveSpec  one call of retrieveContext of src/src/retriever.ts,    *)
(*                 the retriever with partition modes;                     *)
(*   GroupSpec     one call of retrieveContext and of formatContext of     *)
(*                 src/unnamed/part_002, the retriever that groups by file;*)
(*   EmbedSpec     one call of embedTexts of src/unnamed/part_005, its     *)
(*                 requests answered in any order or failing;              *)
(*   StoreSpec     the embedding loop of train calling addItemsBatch, one  *)
(*                 call on the index per step;                             *)
(*   ChunkAllSpec  one call of chunkAllFiles, one file per step;           *)
(*   ClassifySpec  one call of classifyChunk on one chunk;                 *)
(*   FixSpec       one call of fixFile or of fixFileInteractive of         *)
(*                 src/src/fixer.ts, one await per step;                   *)
(*   ChatSpec      the read-eval loop of startChat of src/src/reviewer.ts, *)
(*                 one input, or one answer of the model, per step.        *)
(***************************************************************************)
EXTENDS Integers, Sequences, FiniteSets, TLC

VARIABLES
    \* ---- chunkFile ----
    lines,        \* the file's line array: its length and the kind of each line
    chunkStart,   \* the 0-based cursor of the while loop
    chunks,       \* the chunks pushed so far
    cpc,          \* "run" while chunkFile executes, "done" once it has returned
    \* ---- train ----
    fsys,         \* the source tree under the target: path -> NoFile or a file
    manifest,     \* the file ~/.nodesage/manifest.json
    index,        \* the vector index in ~/.nodesage/index: [created, items]
    run,          \* the locals of the train call in progress, or of the last one
    tpc,          \* the position of the train call, "idle" between calls
    hist,         \* what has happened so far, for the statements about several runs
    \* ---- retrieveContext, formatContext ----
    ropts,        \* the options of the call: [topK, type]
    ranking,      \* the stored items, ranked by their score for the query vector
    queries,      \* the calls of queryItems made so far: [topK, type]
    codeResults,  \* retriever.ts 19; part_002 20: results
    knowledgeResults,  \* retriever.ts 20
    result,       \* the list retrieveContext returns
    sections,     \* the sections formatContext builds
    rpc,          \* the position of the call
    \* ---- embedTexts ----
    texts,        \* the number of texts of the call
    batches,      \* part_005 22: the batches [startIdx, length]
    gi,           \* part_005 31: the loop variable i
    inFlight,     \* the batches whose request to the service is outstanding
    responses,    \* the answers received, by batch
    completion,   \* the batches in the order in which their answers came
    allEmbeddings,  \* part_005 19: the result array, indexed from 0
    epc,          \* the position of the call
    \* ---- addItemsBatch in the loop of train ----
    bchunks,      \* trainer.ts 79: chunks.length
    bi,           \* trainer.ts 89: the loop variable i
    bj,           \* store.ts 52: the number of items of the batch inserted
    store,        \* the index as addItemsBatch sees it: [stored, open, staged]
    calls,        \* the calls the current addItemsBatch has made on the index
    bpc,          \* the position of the loop
    \* ---- chunkAllFiles ----
    fileList,     \* chunker.ts 157: files
    fi,           \* chunker.ts 162: the loop variable i
    allChunks,    \* chunker.ts 160
    apc,          \* the position of the call
    \* ---- classifyChunk ----
    clines,       \* chunker.ts 66: lines, what each line of the chunk matches
    chunkKind,    \* the value classifyChunk returns
    kpc,          \* the position of the call
    \* ---- fixFile, fixFileInteractive ----
    fixFn,        \* which of the two functions is running
    disk,         \* the target file and its backup: [file, bak]
    originalCode, \* fixer.ts 234, 299
    fixedCode,    \* fixer.ts 258, 331
    answer,       \* fixer.ts 274, 345: what the user typed at the prompt
    writes,       \* the calls of fs.writeFile made so far: [path, content]
    fpc,          \* the position of the call
    \* ---- startChat ----
    contextWindow,        \* config.contextWindow
    conversationHistory,  \* reviewer.ts 160
    historySlice, \* reviewer.ts 299: the history sent with the last question
    inputs,       \* the number of lines read from the prompt so far
    chatpc        \* the position of the loop

vars == <<lines, chunkStart, chunks, cpc, fsys, manifest, index, run, tpc, hist,
          ropts, ranking, queries, codeResults, knowledgeResults, result, sections, rpc,
          texts, batches, gi, inFlight, responses, completion, allEmbeddings, epc,
          bchunks, bi, bj, store, calls, bpc, fileList, fi, allChunks, apc,
          clines, chunkKind, kpc,
          fixFn, disk, originalCode, fixedCode, answer, writes, fpc,
          contextWindow, conversationHistory, historySlice, inputs, chatpc>>
chunkVars == <<lines, chunkStart, chunks, cpc>>
trainVars == <<fsys, manifest, index, run, tpc, hist>>
queryVars == <<ropts, ranking, queries, codeResults, knowledgeResults, result, sections, rpc>>

\* what a step of one machine leaves alone
embedVars == <<texts, batches, gi, inFlight, responses, completion, allEmbeddings, epc>>
storeVars == <<bchunks, bi, bj, store, calls, bpc>>
chunkAllVars == <<fileList, fi, allChunks, apc>>
classifyVars == <<clines, chunkKind, kpc>>
fixVars == <<fixFn, disk, originalCode, fixedCode, answer, writes, fpc>>
chatVars == <<contextWindow, conversationHistory, historySlice, inputs, chatpc>>
exceptChunk == <<trainVars, queryVars, embedVars, storeVars, chunkAllVars,
                   classifyVars, fixVars, chatVars>>
exceptTrain == <<chunkVars, queryVars, embedVars, storeVars, chunkAllVars,
                   classifyVars, fixVars, chatVars>>
exceptQuery == <<chunkVars, trainVars, embedVars, storeVars, chunkAllVars,
                   classifyVars, fixVars, chatVars>>
exceptEmbed == <<chunkVars, trainVars, queryVars, storeVars, chunkAllVars,
                   classifyVars, fixVars, chatVars>>
exceptStore == <<chunkVars, trainVars, queryVars, embedVars, chunkAllVars,
                   classifyVars, fixVars, chatVars>>
exceptChunkAll == <<chunkVars, trainVars, queryVars, embedVars, storeVars,
                   classifyVars, fixVars, chatVars>>
exceptClassify == <<chunkVars, trainVars, queryVars, embedVars, storeVars, chunkAllVars,
                    fixVars, chatVars>>
exceptFix == <<chunkVars, trainVars, queryVars, embedVars, storeVars, chunkAllVars,
               classifyVars, chatVars>>
exceptChat == <<chunkVars, trainVars, queryVars, embedVars, storeVars, chunkAllVars,
                classifyVars, fixVars>>

(***************************************************************************)
(* Program constants of chunker.ts                                         *)
(***************************************************************************)
MIN_CHUNK_LINES == 5
TARGET_CHUNK_LINES == 40
MAX_CHUNK_LINES == 80
OVERLAP_LINES == 5

(***************************************************************************)
(* Bounds of the chunker model                                             *)
(***************************************************************************)
MaxLines == 100      \* files of 0..MaxLines lines
MaxMarks == 1        \* at most this many boundary lines in a file
MaxFairMarks == 1    \* the same, in the runs checked for termination

Min(a, b) == IF a <= b THEN a ELSE b
Max(a, b) == IF a >= b THEN a ELSE b

(***************************************************************************)
(* A line is abstracted to what the chunker's tests see of it: whether it  *)
(* matches the language's boundary pattern, whether it is blank            *)
(* (trim() === ""), or neither.  The line array is the record              *)
(*   [n, boundary, filler]: n lines, indexed from 0 as in the code; the    *)
(* lines whose index is in boundary match the boundary pattern; every      *)
(* other line is of kind filler, "code" or "blank".                        *)
(***************************************************************************)
\* lines.length
Length(ls) == ls.n

\* boundaryPattern.test(lines[i])
IsBoundary(ls, i) == i \in ls.boundary

\* lines[i].trim() === ""
IsBlank(ls, i) == i \notin ls.boundary /\ ls.filler = "blank"

\* the for loop of lines 109-119: the first boundary line in
\* [cs + TARGET, min(cs + MAX, N)), or -1
FindBestSplit(ls, cs) ==
    LET hits == {i \in (cs + TARGET_CHUNK_LINES) ..
                       (Min(cs + MAX_CHUNK_LINES, Length(ls)) - 1) : IsBoundary(ls, i)}
    IN  IF hits = {} THEN -1
        ELSE CHOOSE i \in hits : \A j \in hits : i <= j

\* the for loop of lines 125-130: the last blank line in
\* [cs + TARGET, cs + MAX - 1], as an exclusive end, or the end unchanged
ForcedSplit(ls, cs, ce) ==
    LET hits == {i \in (cs + TARGET_CHUNK_LINES) .. (cs + MAX_CHUNK_LINES - 1) :
                     i < Length(ls) /\ IsBlank(ls, i)}
    IN  IF hits = {} THEN ce
        ELSE (CHOOSE i \in hits : \A j \in hits : i >= j) + 1

\* the end first set MAX lines after the start
ChunkEndOf_CapAtMax(ls, cs) ==
    LET chunkEnd == Min(cs + MAX_CHUNK_LINES, Length(ls))
        bestSplit == FindBestSplit(ls, cs)
    IN  IF chunkEnd < Length(ls)
        THEN IF bestSplit > 0 THEN bestSplit
             ELSE IF chunkEnd - cs >= MAX_CHUNK_LINES
                  THEN ForcedSplit(ls, cs, chunkEnd)
                  ELSE chunkEnd
        ELSE chunkEnd

\* lines 104-132: the exclusive end of the chunk that starts at cs
ChunkEndOf(ls, cs) ==
    LET chunkEnd == Min(cs + TARGET_CHUNK_LINES, Length(ls))
        bestSplit == FindBestSplit(ls, cs)
    IN  IF chunkEnd < Length(ls)
        THEN IF bestSplit > 0 THEN bestSplit
             ELSE IF chunkEnd - cs >= MAX_CHUNK_LINES
                  THEN ForcedSplit(ls, cs, chunkEnd)
                  ELSE chunkEnd
        ELSE chunkEnd

\* lines.slice(cs, ce).length
SliceLen(ls, cs, ce) == Max(0, Min(ce, Length(ls)) - Max(cs, 0))

\* the overlap taken one line too long
NextStart_LongOverlap(ce, sliceLen, nChunks) ==
    LET next == ce - OVERLAP_LINES - 1
    IN  IF next <= (IF nChunks > 0 THEN ce - sliceLen ELSE 0)
        THEN ce
        ELSE next

\* the non-progress guard written with < for <=
NextStart_StrictGuard(ce, sliceLen, nChunks) ==
    LET next == ce - OVERLAP_LINES
    IN  IF next < (IF nChunks > 0 THEN ce - sliceLen ELSE 0)
        THEN ce
        ELSE next

\* the cursor moved past the line after the chunk, with no overlap
NextStart_SkipLine(ce, sliceLen, nChunks) == ce + 1

\* lines 147-150: the next cursor, with the non-progress guard
NextStart(ce, sliceLen, nChunks) ==
    LET next == ce - OVERLAP_LINES
    IN  IF next <= (IF nChunks > 0 THEN ce - sliceLen ELSE 0)
        THEN ce
        ELSE next

\* lines 136-143: the pushed chunk; split records whether a boundary set its end
MkChunk(cs, ce, bySplit) ==
    [startLine |-> cs + 1, endLine |-> ce, split |-> bySplit]

(***************************************************************************)
(* chunkFile                                                               *)
(***************************************************************************)
\* a file of exactly MIN lines dropped as well
ChunkSmallFile_StrictMin ==
    /\ cpc = "run"
    /\ Length(lines) <= TARGET_CHUNK_LINES
    /\ chunks' = IF Length(lines) <= MIN_CHUNK_LINES THEN <<>>
                 ELSE <<MkChunk(0, Length(lines), FALSE)>>
    /\ cpc' = "done"
    /\ UNCHANGED <<lines, chunkStart>>
    /\ UNCHANGED exceptChunk

\* lines 88-99: a file of at most TARGET lines is one chunk, or none
ChunkSmallFile ==
    /\ cpc = "run"
    /\ Length(lines) <= TARGET_CHUNK_LINES
    /\ chunks' = IF Length(lines) < MIN_CHUNK_LINES THEN <<>>
                 ELSE <<MkChunk(0, Length(lines), FALSE)>>
    /\ cpc' = "done"
    /\ UNCHANGED <<lines, chunkStart>>
    /\ UNCHANGED exceptChunk

\* lines 103-151: one iteration of the while loop
ChunkIter ==
    /\ cpc = "run"
    /\ Length(lines) > TARGET_CHUNK_LINES
    /\ chunkStart < Length(lines)
    /\ LET chunkEnd == ChunkEndOf(lines, chunkStart)
           sliceLen == SliceLen(lines, chunkStart, chunkEnd)
           bySplit == /\ Min(chunkStart + TARGET_CHUNK_LINES, Length(lines)) < Length(lines)
                      /\ FindBestSplit(lines, chunkStart) > 0
           pushed == IF sliceLen >= MIN_CHUNK_LINES
                     THEN Append(chunks, MkChunk(chunkStart, chunkEnd, bySplit))
                     ELSE chunks
       IN  /\ chunks' = pushed
           /\ chunkStart' = NextStart(chunkEnd, sliceLen, Len(pushed))
    /\ UNCHANGED <<lines, cpc>>
    /\ UNCHANGED exceptChunk

\* lines 103, 153: the loop condition fails and chunkFile returns chunks
ChunkReturn ==
    /\ cpc = "run"
    /\ Length(lines) > TARGET_CHUNK_LINES
    /\ chunkStart >= Length(lines)
    /\ cpc' = "done"
    /\ UNCHANGED <<lines, chunkStart, chunks>>
    /\ UNCHANGED exceptChunk

(***************************************************************************)
(* The files chunkFile is run on: every length up to MaxLines, with at     *)
(* most MaxMarks boundary lines, the other lines being all plain code or   *)
(* all blank.  Boundary lines are placed from index TARGET_CHUNK_LINES on: *)
(* chunkFile tests lines[i] only for i >= chunkStart + TARGET_CHUNK_LINES. *)
(***************************************************************************)
\* the sets of at most k indices in lo .. hi
RECURSIVE IndexSets(_, _, _)
IndexSets(lo, hi, k) ==
    IF k = 0 THEN {{}}
    ELSE {{}} \cup UNION {{{i} \cup rest : rest \in IndexSets(i + 1, hi, k - 1)} :
                            i \in lo .. hi}

Files(marks) ==
    UNION {[n : {len}, boundary : IndexSets(TARGET_CHUNK_LINES, len - 1, marks),
            filler : {"code", "blank"}] : len \in 0 .. MaxLines}

NoFile == [kind |-> "none"]

(***************************************************************************)
(* train (trainer.ts) over the store (store.ts)                            *)
(***************************************************************************)
EMBED_BATCH_SIZE == 100

(***************************************************************************)
(* Bounds of the training model                                            *)
(***************************************************************************)
MaxRuns == 2         \* train is called at most this many times
MaxEnv == 2          \* the tree and the manifest file change at most this often
MaxMtime == 2        \* modification times are 1..MaxMtime
LargeChunks == 101   \* the number of chunks of a large file

\* the supported source files that can exist under the target, in the
\* order files.sort() gives them
PathOrder == <<"a.ts", "b.ts">>
Paths == {PathOrder[i] : i \in 1 .. Len(PathOrder)}

\* what a file holds, abstracted to the chunks chunkFile makes of it: none
\* (fewer than MIN_CHUNK_LINES lines) or more than one batch
Contents == {"tiny", "large"}
ChunkCount(c) == IF c = "tiny" THEN 0 ELSE LargeChunks

FileStates == {NoFile} \cup [kind : {"file"}, mtime : 1 .. MaxMtime, content : Contents]

Null == [kind |-> "null"]

\* store.ts 41-44: index.isIndexCreated()
isInitialized == index.created

\* store.ts 27-34: the index directory is removed and an empty index created
createFreshIndex == [created |-> TRUE, items |-> <<>>]

\* store.ts 84-91: the parsed manifest, or null when the file cannot be read
\* or is not JSON.  JSON that is not a manifest is returned as it is.
\* (saveManifest writes numbers that JSON.parse reads back unchanged, so a
\* saved manifest loads as the value that was saved.)
loadManifest(m) ==
    IF m.kind \in {"none", "garbage"} THEN Null ELSE m

\* chunker.ts 18-63: the sorted list of the source files under the target
discoverFiles(tree) == SelectSeq(PathOrder, LAMBDA f : tree[f].kind = "file")

\* the entry compared with a field the stat result does not have
\* (stat.mtime for stat.mtimeMs): the comparison never finds them equal
NeedsProcessing_WrongField(m, tree, f) ==
    \/ f \notin DOMAIN m.files
    \/ TRUE

\* only paths without an entry are taken: a modified file is not noticed
NeedsProcessing_NewOnly(m, tree, f) ==
    f \notin DOMAIN m.files

\* trainer.ts 54-63: the files that are new or whose mtime differs
NeedsProcessing(m, tree, f) ==
    \/ f \notin DOMAIN m.files
    \/ m.files[f].mtime # tree[f].mtime

newOrChanged(m, tree, files) ==
    SelectSeq(files, LAMBDA f : NeedsProcessing(m, tree, f))

(***************************************************************************)
(* Lists of chunks and of index items are written in runs: the record      *)
(* [filePath, content, from, to] stands for the chunks from..to, in order, *)
(* that chunkFile cuts from the given content of the file.                 *)
(***************************************************************************)
RunLen(r) == r.to - r.from + 1

\* the number of chunks (items) of a list
RECURSIVE Count(_)
Count(q) == IF q = <<>> THEN 0 ELSE RunLen(Head(q)) + Count(Tail(q))

\* the number of chunks (items) of file f in a list: filter(...).length
RECURSIVE CountFor(_, _)
CountFor(q, f) ==
    IF q = <<>> THEN 0
    ELSE (IF Head(q).filePath = f THEN RunLen(Head(q)) ELSE 0) + CountFor(Tail(q), f)

\* Array.prototype.slice: n elements of q after the first i
RECURSIVE Slice(_, _, _)
Slice(q, i, n) ==
    IF q = <<>> \/ n <= 0 THEN <<>>
    ELSE LET h == Head(q)
         IN  IF i >= RunLen(h) THEN Slice(Tail(q), i - RunLen(h), n)
             ELSE LET take == Min(RunLen(h) - i, n)
                  IN  <<[h EXCEPT !.from = h.from + i, !.to = h.from + i + take - 1]>>
                          \o Slice(Tail(q), 0, n - take)

\* chunker.ts 81-154 seen from train: the chunks of one file
chunkFile(tree, f) ==
    IF ChunkCount(tree[f].content) = 0 THEN <<>>
    ELSE <<[filePath |-> f, content |-> tree[f].content,
            from |-> 1, to |-> ChunkCount(tree[f].content)]>>

\* chunker.ts 156-173: the chunks of the files in order; a file that cannot
\* be read any more is skipped
RECURSIVE chunkAllFiles(_, _)
chunkAllFiles(tree, files) ==
    IF files = <<>> THEN <<>>
    ELSE LET f == Head(files)
         IN  (IF tree[f].kind = "file" THEN chunkFile(tree, f) ELSE <<>>)
                 \o chunkAllFiles(tree, Tail(files))

\* trainer.ts 90: chunks.slice(i, i + EMBED_BATCH_SIZE)
Batch(cs, i) == Slice(cs, i, EMBED_BATCH_SIZE)

\* trainer.ts 95-107: the items of a batch, one per chunk
ItemsOf(batch) ==
    [j \in 1 .. Len(batch) |->
        [type |-> "code", filePath |-> batch[j].filePath,
         content |-> batch[j].content, from |-> batch[j].from, to |-> batch[j].to]]

\* the batch written over the stored items
addItemsBatch_Overwrite(ix, items) == [ix EXCEPT !.items = items]

\* store.ts 46-61: every item of the batch is inserted, in order
addItemsBatch(ix, items) == [ix EXCEPT !.items = @ \o items]

SeqToSet(q) == {q[i] : i \in 1 .. Len(q)}

\* the previous entries carried over only for the files seen unchanged
newManifestFiles_DropStale(loaded, tree, toProcess, cs) ==
    LET carried == IF loaded # Null
                   THEN [f \in {g \in DOMAIN loaded.files : tree[g].kind = "file"} |->
                            loaded.files[f]]
                   ELSE <<>>
        fresh == [f \in SeqToSet(toProcess) |->
                    [mtime |-> tree[f].mtime,
                     chunkCount |-> CountFor(cs, f)]]
    IN  [f \in DOMAIN carried \cup DOMAIN fresh |->
            IF f \in DOMAIN fresh THEN fresh[f] ELSE carried[f]]

\* trainer.ts 117-134: the manifest to save
newManifestFiles(loaded, tree, toProcess, cs) ==
    LET carried == IF loaded # Null THEN loaded.files ELSE <<>>
        fresh == [f \in SeqToSet(toProcess) |->
                    [mtime |-> tree[f].mtime,
                     chunkCount |-> CountFor(cs, f)]]
    IN  [f \in DOMAIN carried \cup DOMAIN fresh |->
            IF f \in DOMAIN fresh THEN fresh[f] ELSE carried[f]]

NoRun == [kind |-> "none"]

\* trainer.ts 36-45: full or incremental; a fresh index unless one exists
\* and the run is not forced
TrainBegin(force) ==
    /\ tpc = "idle"
    /\ hist.runs < MaxRuns
    /\ LET initialized == isInitialized
           loaded == IF initialized /\ ~force THEN loadManifest(manifest) ELSE Null
       IN  /\ run' = [kind |-> "run", id |-> hist.runs + 1, force |-> force,
                      initialized |-> initialized, manifest |-> loaded,
                      isIncremental |-> loaded # Null,
                      files |-> <<>>, filesToProcess |-> <<>>, chunked |-> <<>>,
                      chunks |-> <<>>, i |-> 0, status |-> "running", error |-> "none"]
           /\ index' = IF ~initialized \/ force THEN createFreshIndex ELSE index
    /\ tpc' = "discover"
    /\ hist' = [hist EXCEPT !.runs = @ + 1, !.changed = FALSE]
    /\ UNCHANGED <<fsys, manifest>>
    /\ UNCHANGED exceptTrain

\* the call ends: normally, or with the error it throws; of its locals the
\* record keeps what the run loaded, found and selected
Finish(r, status, error) ==
    [r EXCEPT !.status = status, !.error = error, !.chunks = <<>>, !.i = 0]

\* trainer.ts 48-75: discovery and the partition of the files
TrainDiscover ==
    /\ tpc = "discover"
    /\ LET files == discoverFiles(fsys)
       IN  IF files = <<>>
           THEN \* chunker.ts 55-57: no supported source files
                /\ run' = Finish(run, "error", "NoSourceFiles")
                /\ tpc' = "idle"
           ELSE IF run.isIncremental /\ run.manifest.kind # "ok"
           THEN \* trainer.ts 58: manifest.files is undefined
                /\ run' = Finish([run EXCEPT !.files = files], "error", "TypeError")
                /\ tpc' = "idle"
           ELSE LET toProcess == IF run.isIncremental
                                 THEN newOrChanged(run.manifest, fsys, files)
                                 ELSE files
                IN  IF run.isIncremental /\ toProcess = <<>>
                    THEN \* trainer.ts 65-68: nothing to do
                         /\ run' = Finish([run EXCEPT !.files = files], "ok", "none")
                         /\ tpc' = "idle"
                    ELSE /\ run' = [run EXCEPT !.files = files,
                                               !.filesToProcess = toProcess]
                         /\ tpc' = "chunk"
    /\ hist' = [hist EXCEPT !.quiet = IF tpc' = "idle" /\ run'.status = "ok"
                                      THEN ~hist.changed ELSE @]
    /\ UNCHANGED <<fsys, manifest, index>>
    /\ UNCHANGED exceptTrain

\* trainer.ts 79-82: the files to process are chunked
TrainChunk ==
    /\ tpc = "chunk"
    /\ run' = [run EXCEPT !.chunks = chunkAllFiles(fsys, run.filesToProcess),
                          !.chunked = run.filesToProcess]
    /\ tpc' = IF Count(run'.chunks) > 0 THEN "embed" ELSE "save"
    /\ UNCHANGED <<fsys, manifest, index, hist>>
    /\ UNCHANGED exceptTrain

\* trainer.ts 89-112: one batch is embedded and inserted
TrainEmbedBatch ==
    /\ tpc = "embed"
    /\ index' = addItemsBatch(index, ItemsOf(Batch(run.chunks, run.i)))
    /\ run' = [run EXCEPT !.i = @ + EMBED_BATCH_SIZE]
    /\ tpc' = IF run'.i < Count(run.chunks) THEN "embed" ELSE "save"
    /\ UNCHANGED <<fsys, manifest, hist>>
    /\ UNCHANGED exceptTrain

\* the error of a batch caught and the loop going on with the next batch
TrainEmbedFail_Skip ==
    /\ tpc = "embed"
    /\ run' = [run EXCEPT !.i = @ + EMBED_BATCH_SIZE]
    /\ tpc' = IF run'.i < Count(run.chunks) THEN "embed" ELSE "save"
    /\ UNCHANGED <<fsys, manifest, index, hist>>
    /\ UNCHANGED exceptTrain

\* trainer.ts 93, 109: embedTexts or addItemsBatch throws; nothing of the
\* batch reaches the index and the error leaves train
TrainEmbedFail ==
    /\ tpc = "embed"
    /\ run' = Finish(run, "error", "EmbedOrIndex")
    /\ tpc' = "idle"
    /\ UNCHANGED <<fsys, manifest, index, hist>>
    /\ UNCHANGED exceptTrain

\* trainer.ts 117-136: the manifest is built and saved; fs.stat of a file
\* that has been removed throws
TrainSave ==
    /\ tpc = "save"
    /\ IF \E f \in SeqToSet(run.filesToProcess) : fsys[f].kind # "file"
       THEN /\ run' = Finish(run, "error", "Stat")
            /\ UNCHANGED <<manifest, hist>>
       ELSE /\ manifest' = [kind |-> "ok",
                            files |-> newManifestFiles(run.manifest, fsys,
                                                       run.filesToProcess, run.chunks)]
            /\ run' = Finish(run, "ok", "none")
            /\ hist' = [hist EXCEPT !.quiet = ~hist.changed, !.savedBy = run.id]
    /\ tpc' = "idle"
    /\ UNCHANGED <<fsys, index>>
    /\ UNCHANGED exceptTrain

(***************************************************************************)
(* The world around train: the tree changes, also while a run is in        *)
(* progress, and the manifest file can be damaged.                         *)
(***************************************************************************)
Changed == [hist EXCEPT !.env = @ + 1, !.changed = TRUE, !.quiet = FALSE]

\* a file is created, or modified: its mtime changes
WriteFile(f) ==
    /\ hist.env < MaxEnv
    /\ \E t \in 1 .. MaxMtime, c \in Contents :
          /\ fsys[f].kind = "file" => t # fsys[f].mtime
          /\ fsys' = [fsys EXCEPT ![f] = [kind |-> "file", mtime |-> t, content |-> c]]
    /\ hist' = Changed
    /\ UNCHANGED <<manifest, index, run, tpc>>
    /\ UNCHANGED exceptTrain

RemoveFile(f) ==
    /\ hist.env < MaxEnv
    /\ fsys[f].kind = "file"
    /\ fsys' = [fsys EXCEPT ![f] = NoFile]
    /\ hist' = Changed
    /\ UNCHANGED <<manifest, index, run, tpc>>
    /\ UNCHANGED exceptTrain

\* manifest.json is left truncated ("garbage": JSON.parse throws) or holding
\* JSON that is no manifest ("nofiles": an object without a files map)
DamageManifest(k) ==
    /\ hist.env < MaxEnv
    /\ manifest.kind = "ok"
    /\ manifest' = [kind |-> k]
    /\ hist' = [Changed EXCEPT !.savedBy = 0]
    /\ UNCHANGED <<fsys, index, run, tpc>>
    /\ UNCHANGED exceptTrain

(***************************************************************************)
(* retrieveContext.  Two retrievers are in the source: the one of          *)
(* src/src/retriever.ts takes a partition mode and merges the code and     *)
(* knowledge partitions by score; the one of src/unnamed/part_002 makes    *)
(* one query and groups its results by file.                               *)
(*                                                                         *)
(* A stored item is seen as [type, score, filePath, startLine], score      *)
(* being its similarity to the query vector; a knowledge item has no file  *)
(* and no line (filePath "none", startLine 0).                             *)
(***************************************************************************)
MaxTopK == 3         \* topK is 0..MaxTopK
MaxHits == 3         \* the index holds at most this many items
MaxScore == 2        \* scores are 1..MaxScore

StartLines == {1, 36}

CodeItems(files) ==
    [type : {"code"}, score : 1 .. MaxScore, filePath : files, startLine : StartLines]

KnowledgeItems ==
    [type : {"knowledge"}, score : 1 .. MaxScore, filePath : {"none"}, startLine : {0}]

\* the lists of at most n of the items, no score above top, in non-increasing
\* order of score: what the index holds, as it ranks it for one query
RECURSIVE Rankings(_, _, _)
Rankings(items, n, top) ==
    IF n = 0 THEN {<<>>}
    ELSE {<<>>} \cup UNION {{<<it>> \o rest : rest \in Rankings(items, n - 1, it.score)} :
                              it \in {i \in items : i.score <= top}}

\* Array.prototype.slice(0, k), k >= 0
Take(q, k) == SubSeq(q, 1, Min(k, Len(q)))

\* Array.prototype.sort((a, b) => key(a) - key(b)): the elements in ascending
\* order of their keys, elements of equal key in their original order
StableSort(q, key) ==
    LET n == Len(q)
        pos(i) == 1 + Cardinality({j \in 1 .. n : \/ key[j] < key[i]
                                                  \/ key[j] = key[i] /\ j < i})
    IN  [p \in 1 .. n |-> q[CHOOSE i \in 1 .. n : pos(i) = p]]

\* store.ts 63-82: the topK best items that pass the filter, best first
\* (index.queryItems of the vectra index); type "none" is no filter
queryItems(rk, topK, type) ==
    Take(SelectSeq(rk, LAMBDA it : type = "none" \/ it.type = type), topK)

\* the knowledge partition asked for half of topK rounded down
KnowledgeTopK_Floor(topK) == topK \div 2

\* retriever.ts 20: Math.ceil(topK / 2)
KnowledgeTopK(topK) == (topK + 1) \div 2

\* the concatenation cut to topK without being sorted
mergeResults_NoSort(code, knowledge, topK) == Take(code \o knowledge, topK)

\* retriever.ts 24-26: concatenated, sorted by descending score, cut to topK
mergeResults(code, knowledge, topK) ==
    LET combined == code \o knowledge
    IN  Take(StableSort(combined, [i \in 1 .. Len(combined) |-> 0 - combined[i].score]),
             topK)

\* retriever.ts 29: a single partition is queried and its answer returned
RetrieveSingle ==
    /\ rpc = "start"
    /\ ropts.type # "both"
    /\ queries' = Append(queries, [topK |-> ropts.topK, type |-> ropts.type])
    /\ result' = queryItems(ranking, ropts.topK, ropts.type)
    /\ rpc' = "done"
    /\ UNCHANGED <<ropts, ranking, codeResults, knowledgeResults, sections>>
    /\ UNCHANGED exceptQuery

\* retriever.ts 19
RetrieveQueryCode ==
    /\ rpc = "start"
    /\ ropts.type = "both"
    /\ queries' = Append(queries, [topK |-> ropts.topK, type |-> "code"])
    /\ codeResults' = queryItems(ranking, ropts.topK, "code")
    /\ rpc' = "code"
    /\ UNCHANGED <<ropts, ranking, knowledgeResults, result, sections>>
    /\ UNCHANGED exceptQuery

\* retriever.ts 20-22
RetrieveQueryKnowledge ==
    /\ rpc = "code"
    /\ queries' = Append(queries, [topK |-> KnowledgeTopK(ropts.topK), type |-> "knowledge"])
    /\ knowledgeResults' = queryItems(ranking, KnowledgeTopK(ropts.topK), "knowledge")
    /\ rpc' = "merge"
    /\ UNCHANGED <<ropts, ranking, codeResults, result, sections>>
    /\ UNCHANGED exceptQuery

\* retriever.ts 24-26
RetrieveMerge ==
    /\ rpc = "merge"
    /\ result' = mergeResults(codeResults, knowledgeResults, ropts.topK)
    /\ rpc' = "done"
    /\ UNCHANGED <<ropts, ranking, queries, codeResults, knowledgeResults, sections>>
    /\ UNCHANGED exceptQuery

(***************************************************************************)
(* The retriever of src/unnamed/part_002.  A Map keeps its keys in the     *)
(* order of their first insertion: byFile is the list of its entries       *)
(* [file, chunks] in that order.                                           *)
(***************************************************************************)
\* the index of the entry of file f in the map, 0 when it has none
EntryOf(byFile, f) ==
    IF \E i \in 1 .. Len(byFile) : byFile[i].file = f
    THEN CHOOSE i \in 1 .. Len(byFile) : byFile[i].file = f
    ELSE 0

\* a file not yet in the map put in front of the others
GroupInto_NewFirst(byFile, rs) ==
    LET Step[k \in 0 .. Len(rs)] ==
            IF k = 0 THEN byFile
            ELSE LET r == rs[k]
                     e == EntryOf(Step[k - 1], r.filePath)
                 IN  IF e = 0
                     THEN <<[file |-> r.filePath, chunks |-> <<r>>]>> \o Step[k - 1]
                     ELSE [Step[k - 1] EXCEPT ![e].chunks = Append(@, r)]
    IN  Step[Len(rs)]

\* part_002 163-169, 185-191: each result is appended to the entry of its file
GroupInto(byFile, rs) ==
    LET Step[k \in 0 .. Len(rs)] ==
            IF k = 0 THEN byFile
            ELSE LET r == rs[k]
                     e == EntryOf(Step[k - 1], r.filePath)
                 IN  IF e = 0
                     THEN Append(Step[k - 1], [file |-> r.filePath, chunks |-> <<r>>])
                     ELSE [Step[k - 1] EXCEPT ![e].chunks = Append(@, r)]
    IN  Step[Len(rs)]

\* part_002 174, 197: chunks.sort((a, b) => a.metadata.startLine - b.metadata.startLine)
sortByLine(cs) == StableSort(cs, [i \in 1 .. Len(cs) |-> cs[i].startLine])

\* part_002 172-176: the sorted groups, one after the other
RECURSIVE Flatten(_)
Flatten(byFile) ==
    IF byFile = <<>> THEN <<>>
    ELSE sortByLine(Head(byFile).chunks) \o Flatten(Tail(byFile))

\* part_002 181-212: one section per file, naming the file and the lines of
\* its chunks in ascending order
formatContext(rs) ==
    LET byFile == GroupInto(<<>>, rs)
    IN  [g \in 1 .. Len(byFile) |->
            LET cs == sortByLine(byFile[g].chunks)
            IN  [filePath |-> byFile[g].file,
                 startLines |-> [i \in 1 .. Len(cs) |-> cs[i].startLine]]]

\* part_002 158-159: the one query, without filter
GroupQuery ==
    /\ rpc = "start"
    /\ queries' = Append(queries, [topK |-> ropts.topK, type |-> "none"])
    /\ codeResults' = queryItems(ranking, ropts.topK, "none")
    /\ rpc' = "queried"
    /\ UNCHANGED <<ropts, ranking, knowledgeResults, result, sections>>
    /\ UNCHANGED exceptQuery

\* part_002 161-178: the results grouped by file, each group sorted by line
GroupReturn ==
    /\ rpc = "queried"
    /\ result' = Flatten(GroupInto(<<>>, codeResults))
    /\ rpc' = "done"
    /\ UNCHANGED <<ropts, ranking, queries, codeResults, knowledgeResults, sections>>
    /\ UNCHANGED exceptQuery

\* part_002 181-212: the caller formats the list retrieveContext returned
FormatContext ==
    /\ rpc = "done"
    /\ sections' = formatContext(result)
    /\ rpc' = "formatted"
    /\ UNCHANGED <<ropts, ranking, queries, codeResults, knowledgeResults, result>>
    /\ UNCHANGED exceptQuery

QueryIdle ==
    /\ ropts = [topK |-> 0, type |-> "code"]
    /\ ranking = <<>>
    /\ queries = <<>>
    /\ codeResults = <<>>
    /\ knowledgeResults = <<>>
    /\ result = <<>>
    /\ sections = <<>>
    /\ rpc = "idle"

(***************************************************************************)
(* embedTexts (embedder.ts, src/unnamed/part_005): the texts are cut into  *)
(* batches and the batches are sent to the embedding service CONCURRENCY   *)
(* at a time.  The earlier embedTexts of src/unnamed/part_004 sends one    *)
(* batch after the other.                                                  *)
(*                                                                         *)
(* The texts of a call are all different: the text at index i is written   *)
(* i, and texts is the number of them.  The service answers a batch with   *)
(* one embedding per text, in the order of the texts.                      *)
(***************************************************************************)
BATCH_SIZE == 50
CONCURRENCY == 3
SEQUENTIAL_BATCH_SIZE == 20

MaxTexts == 151      \* embedTexts is called with 0..MaxTexts texts

\* the embedding the service computes for a text
Embedding(t) == [of |-> t]
NoEmbedding == [of |-> -1]

\* part_005 22-28: the batches, each with the index of its first text
Batches(n) ==
    [b \in 1 .. ((n + BATCH_SIZE - 1) \div BATCH_SIZE) |->
        [startIdx |-> (b - 1) * BATCH_SIZE,
         length |-> Min(BATCH_SIZE, n - (b - 1) * BATCH_SIZE)]]

\* part_005 32: batches.slice(i, i + CONCURRENCY), as positions in batches
GroupAt(bs, i) == {b \in 1 .. Len(bs) : i < b /\ b <= i + CONCURRENCY}

\* part_005 35-39: the answer to one batch, with the batch's startIdx
Response(batch) ==
    [startIdx |-> batch.startIdx,
     embeddings |-> [j \in 0 .. (batch.length - 1) |-> Embedding(batch.startIdx + j)]]

\* the next group started as soon as one request of the group has answered
GroupDone_Any(pending, group) == pending # group

\* part_005 33: Promise.all resolves when no request of the group is pending
GroupDone(pending, group) == pending \cap group = {}

\* the embeddings written from index 0 on
writeBack_NoOffset(all, res) ==
    [k \in DOMAIN all |->
        IF k \in DOMAIN res.embeddings THEN res.embeddings[k] ELSE all[k]]

\* part_005 44-46: allEmbeddings[result.startIdx + j] = result.embeddings[j]
writeBack(all, res) ==
    [k \in DOMAIN all |->
        IF k - res.startIdx \in DOMAIN res.embeddings
        THEN res.embeddings[k - res.startIdx]
        ELSE all[k]]

\* part_005 43-47: the answers of a group written back in the group's order
RECURSIVE writeGroup(_, _, _)
writeGroup(all, rs, group) ==
    IF group = {} THEN all
    ELSE LET b == CHOOSE x \in group : \A y \in group : x <= y
         IN  writeGroup(IF b \in DOMAIN rs THEN writeBack(all, rs[b]) ELSE all,
                        rs, group \ {b})

\* part_004 15-28: the embeddings of n texts, one batch pushed after the other
RECURSIVE embedTextsSequential(_, _, _)
embedTextsSequential(n, i, all) ==
    IF i >= n THEN all
    ELSE LET len == Min(SEQUENTIAL_BATCH_SIZE, n - i)
         IN  embedTextsSequential(n, i + SEQUENTIAL_BATCH_SIZE,
                                  all \o [j \in 1 .. len |-> Embedding(i + j - 1)])

\* part_005 19-28: the result array is sized and the batches are cut
EmbedSplit ==
    /\ epc = "start"
    /\ allEmbeddings' = [k \in 0 .. (texts - 1) |-> NoEmbedding]
    /\ batches' = Batches(texts)
    /\ gi' = 0
    /\ epc' = "loop"
    /\ UNCHANGED <<texts, inFlight, responses, completion>>
    /\ UNCHANGED exceptEmbed

\* part_005 31-35: the requests of the next group are sent
EmbedSubmit ==
    /\ epc = "loop"
    /\ gi < Len(batches)
    /\ inFlight' = inFlight \cup GroupAt(batches, gi)
    /\ epc' = "await"
    /\ UNCHANGED <<texts, batches, gi, responses, completion, allEmbeddings>>
    /\ UNCHANGED exceptEmbed

\* part_005 35-39: the service answers the request of batch b
EmbedRespond(b) ==
    /\ epc \in {"await", "loop", "failed"}
    /\ b \in inFlight
    /\ inFlight' = inFlight \ {b}
    /\ responses' = [x \in DOMAIN responses \cup {b} |->
                        IF x = b THEN Response(batches[b]) ELSE responses[x]]
    /\ completion' = Append(completion, b)
    /\ UNCHANGED <<texts, batches, gi, allEmbeddings, epc>>
    /\ UNCHANGED exceptEmbed

\* part_005 35: the request of batch b fails; Promise.all rejects at once and
\* embedTexts throws, whatever becomes of the other requests
EmbedReject(b) ==
    /\ epc \in {"await", "failed"}
    /\ b \in inFlight
    /\ inFlight' = inFlight \ {b}
    /\ epc' = "failed"
    /\ UNCHANGED <<texts, batches, gi, responses, completion, allEmbeddings>>
    /\ UNCHANGED exceptEmbed

\* part_005 33, 43-47: the group has answered; its embeddings are written back
EmbedWrite ==
    /\ epc = "await"
    /\ GroupDone(inFlight, GroupAt(batches, gi))
    /\ allEmbeddings' = writeGroup(allEmbeddings, responses, GroupAt(batches, gi))
    /\ gi' = gi + CONCURRENCY
    /\ epc' = "loop"
    /\ UNCHANGED <<texts, batches, inFlight, responses, completion>>
    /\ UNCHANGED exceptEmbed

\* part_005 31, 50: no batch is left and allEmbeddings is returned
EmbedReturn ==
    /\ epc = "loop"
    /\ gi >= Len(batches)
    /\ epc' = "done"
    /\ UNCHANGED <<texts, batches, gi, inFlight, responses, completion, allEmbeddings>>
    /\ UNCHANGED exceptEmbed

EmbedIdle ==
    /\ texts = 0
    /\ batches = <<>>
    /\ gi = 0
    /\ inFlight = {}
    /\ responses = <<>>
    /\ completion = <<>>
    /\ allEmbeddings = <<>>
    /\ epc = "idle"

(***************************************************************************)
(* addItemsBatch (store.ts) called from the embedding loop of train, one   *)
(* call on the index per step.  The index is [stored, open, staged]: the   *)
(* number of items it has persisted, whether an update is in progress, and *)
(* the number of items of the update's working copy.  An insert during an  *)
(* update goes to the working copy, which endUpdate persists; an insert    *)
(* outside an update is persisted by itself.                               *)
(***************************************************************************)
MaxBatchChunks == 101   \* the run has 0..MaxBatchChunks chunks

\* store.ts 50 left out: no update is begun
beginUpdate_Missing(x) == x

\* store.ts 50: index.beginUpdate()
beginUpdate(x) == [x EXCEPT !.open = TRUE, !.staged = x.stored]

\* store.ts 53-56: index.insertItem(...)
insertItem(x) ==
    IF x.open THEN [x EXCEPT !.staged = @ + 1]
    ELSE [x EXCEPT !.stored = @ + 1]

\* store.ts 59: index.endUpdate()
endUpdate(x) ==
    IF x.open THEN [x EXCEPT !.stored = x.staged, !.open = FALSE, !.staged = 0]
    ELSE x

\* trainer.ts 90: batch.length
BatchLength == Min(EMBED_BATCH_SIZE, bchunks - bi)

NoCalls == [beginUpdate |-> 0, insertItem |-> 0, endUpdate |-> 0]

\* trainer.ts 89-109: the next batch is embedded and addItemsBatch is called
BatchCall ==
    /\ bpc = "loop"
    /\ bi < bchunks
    /\ calls' = NoCalls
    /\ bj' = 0
    /\ bpc' = "begin"
    /\ UNCHANGED <<bchunks, bi, store>>
    /\ UNCHANGED exceptStore

\* store.ts 49-50
AddBegin ==
    /\ bpc = "begin"
    /\ store' = beginUpdate(store)
    /\ calls' = [calls EXCEPT !.beginUpdate = @ + 1]
    /\ bpc' = "insert"
    /\ UNCHANGED <<bchunks, bi, bj>>
    /\ UNCHANGED exceptStore

\* store.ts 52-57: one item of the batch is inserted
AddInsert ==
    /\ bpc = "insert"
    /\ bj < BatchLength
    /\ store' = insertItem(store)
    /\ calls' = [calls EXCEPT !.insertItem = @ + 1]
    /\ bj' = bj + 1
    /\ UNCHANGED <<bchunks, bi, bpc>>
    /\ UNCHANGED exceptStore

\* store.ts 53: insertItem throws; addItemsBatch and train end with the error,
\* endUpdate is not called
AddInsertFail ==
    /\ bpc = "insert"
    /\ bj < BatchLength
    /\ bpc' = "failed"
    /\ UNCHANGED <<bchunks, bi, bj, store, calls>>
    /\ UNCHANGED exceptStore

\* store.ts 59-60, trainer.ts 110-112: the update is ended and the loop goes on
AddEnd ==
    /\ bpc = "insert"
    /\ bj = BatchLength
    /\ store' = endUpdate(store)
    /\ calls' = [calls EXCEPT !.endUpdate = @ + 1]
    /\ bi' = bi + EMBED_BATCH_SIZE
    /\ bpc' = "loop"
    /\ UNCHANGED <<bchunks, bj>>
    /\ UNCHANGED exceptStore

\* trainer.ts 89, 114: no chunk is left
BatchDone ==
    /\ bpc = "loop"
    /\ bi >= bchunks
    /\ bpc' = "done"
    /\ UNCHANGED <<bchunks, bi, bj, store, calls>>
    /\ UNCHANGED exceptStore

StoreIdle ==
    /\ bchunks = 0
    /\ bi = 0
    /\ bj = 0
    /\ store = [stored |-> 0, open |-> FALSE, staged |-> 0]
    /\ calls = NoCalls
    /\ bpc = "idle"

(***************************************************************************)
(* chunkAllFiles (chunker.ts), one file per step.  fileList is the list it *)
(* is given; a file is [path, readable, content], paths being 1, 2, ...    *)
(***************************************************************************)
MaxFiles == 3        \* at most this many files in the list

\* the lists of files with ascending paths taken from lo .. MaxFiles
RECURSIVE FileLists(_)
FileLists(lo) ==
    IF lo > MaxFiles THEN {<<>>}
    ELSE FileLists(lo + 1)
         \cup {<<e>> \o rest : e \in [path : {lo}, readable : BOOLEAN, content : Contents],
                               rest \in FileLists(lo + 1)}

\* chunker.ts 81-154 seen from chunkAllFiles: the chunks of one readable file
ChunksOf(e) ==
    IF ChunkCount(e.content) = 0 THEN <<>>
    ELSE <<[filePath |-> e.path, content |-> e.content,
            from |-> 1, to |-> ChunkCount(e.content)]>>

\* chunker.ts 164-166: the file is read and its chunks are pushed
ChunkAllRead ==
    /\ apc = "loop"
    /\ fi < Len(fileList)
    /\ fileList[fi + 1].readable
    /\ allChunks' = allChunks \o ChunksOf(fileList[fi + 1])
    /\ fi' = fi + 1
    /\ UNCHANGED <<fileList, apc>>
    /\ UNCHANGED exceptChunkAll

\* the loop left at the first file that cannot be read
ChunkAllSkip_Abort ==
    /\ apc = "loop"
    /\ fi < Len(fileList)
    /\ ~fileList[fi + 1].readable
    /\ apc' = "done"
    /\ UNCHANGED <<fileList, fi, allChunks>>
    /\ UNCHANGED exceptChunkAll

\* chunker.ts 165, 167-169: readFile throws and the catch block skips the file
ChunkAllSkip ==
    /\ apc = "loop"
    /\ fi < Len(fileList)
    /\ ~fileList[fi + 1].readable
    /\ fi' = fi + 1
    /\ UNCHANGED <<fileList, allChunks, apc>>
    /\ UNCHANGED exceptChunkAll

\* chunker.ts 162, 172: every file has been visited and allChunks is returned
ChunkAllReturn ==
    /\ apc = "loop"
    /\ fi >= Len(fileList)
    /\ apc' = "done"
    /\ UNCHANGED <<fileList, fi, allChunks>>
    /\ UNCHANGED exceptChunkAll

ChunkAllIdle ==
    /\ fileList = <<>>
    /\ fi = 0
    /\ allChunks = <<>>
    /\ apc = "idle"

(***************************************************************************)
(* classifyChunk (chunker.ts 65-79).  A line of the chunk is the record of *)
(* what the function can observe of it: whether it is blank (trim() is     *)
(* empty) and which of the three regular expressions match it, the import  *)
(* pattern of the language (languages.ts 243-284), the class heuristic of  *)
(* chunker.ts 75 and the boundary pattern (languages.ts 190-240).  The     *)
(* patterns overlap: "open Foo" matches both the import and the boundary   *)
(* pattern of F#, "class A" both the class heuristic and most boundary     *)
(* patterns.  A blank line matches none of them.                           *)
(***************************************************************************)
MaxChunkLines == 3

BlankLine == [blank |-> TRUE, imp |-> FALSE, cls |-> FALSE, bnd |-> FALSE]

LineKinds ==
    {BlankLine} \cup [blank : {FALSE}, imp : BOOLEAN, cls : BOOLEAN, bnd : BOOLEAN]

ChunkLineSeqs == UNION {[1 .. n -> LineKinds] : n \in 0 .. MaxChunkLines}

\* chunker.ts 72: lines.find((l) => l.trim().length > 0) ?? ""
firstNonBlank(ls) ==
    LET found == {i \in 1 .. Len(ls) : ~ls[i].blank}
    IN  IF found = {} THEN BlankLine
        ELSE ls[CHOOSE i \in found : \A k \in found : i <= k]

classifyChunk_BoundaryFirst(ls) ==
    LET l == firstNonBlank(ls)
    IN  IF l.bnd THEN "function"
        ELSE IF l.imp THEN "imports"
        ELSE IF l.cls THEN "class"
        ELSE "general"

\* chunker.ts 74-78
classifyChunk(ls) ==
    LET l == firstNonBlank(ls)
    IN  IF l.imp THEN "imports"
        ELSE IF l.cls THEN "class"
        ELSE IF l.bnd THEN "function"
        ELSE "general"

\* chunker.ts 96, 142: chunkFile classifies the chunk it is about to push
Classify ==
    /\ kpc = "start"
    /\ chunkKind' = classifyChunk(clines)
    /\ kpc' = "done"
    /\ UNCHANGED clines
    /\ UNCHANGED exceptClassify

ClassifyIdle ==
    /\ clines = <<>>
    /\ chunkKind = "none"
    /\ kpc = "idle"

(***************************************************************************)
(* fixFile and fixFileInteractive (fixer.ts 228-358).  A text is its body  *)
(* and the number of newlines that end it, which is what trim() and the    *)
(* appended "\n" change.  The answer typed at the prompt is compared after *)
(* toLowerCase(), without trimming.                                        *)
(***************************************************************************)
MaxTrail == 1

Bodies == {"v1", "v2"}
Codes == [body : Bodies, trail : 0 .. MaxTrail]
OldBackup == [body |-> "v0", trail |-> 1]

\* String.prototype.trim on a text
trim(c) == [c EXCEPT !.trail = 0]

\* fixer.ts 192-201: whatever the model wrapped it in, the code comes out trimmed
stripMarkdownFences(response) == trim(response)

\* fixer.ts 282, 353: fixedCode + "\n"
withNewline(c) == [c EXCEPT !.trail = c.trail + 1]

Answers == {"y", "Y", "yes", "Yes", "YES", "n", "N", "no", "", " y", "yes ", "ok"}

\* String.prototype.toLowerCase on the answers
toLowerCase(a) ==
    CASE a = "Y" -> "y"
      [] a \in {"Yes", "YES"} -> "yes"
      [] a = "N" -> "n"
      [] OTHER -> a

Accepted_DefaultYes(a) == toLowerCase(a) \in {"y", "yes", ""}

\* fixer.ts 279, 350
Accepted(a) == toLowerCase(a) = "y" \/ toLowerCase(a) = "yes"

NoCode == [body |-> "none", trail |-> 0]

\* fixer.ts 234, 299: the file is read
FixRead ==
    /\ fpc = "start"
    /\ disk.file # NoFile
    /\ originalCode' = disk.file
    /\ fpc' = "chat"
    /\ UNCHANGED <<fixFn, disk, fixedCode, answer, writes>>
    /\ UNCHANGED exceptFix

\* fixer.ts 234: fixFile lets the error through; 300-303: fixFileInteractive
\* reports it and returns
FixReadFail ==
    /\ fpc = "start"
    /\ disk.file = NoFile
    /\ fpc' = IF fixFn = "fixFile" THEN "failed" ELSE "done"
    /\ UNCHANGED <<fixFn, disk, originalCode, fixedCode, answer, writes>>
    /\ UNCHANGED exceptFix

\* fixer.ts 252-263, 326-336: the model answers; the answer equal to the
\* trimmed original ends the call, any other is shown and the prompt is put
FixGenerate(response) ==
    /\ fpc = "chat"
    /\ fixedCode' = stripMarkdownFences(response)
    /\ fpc' = IF fixedCode' = trim(originalCode) THEN "done" ELSE "prompt"
    /\ UNCHANGED <<fixFn, disk, originalCode, answer, writes>>
    /\ UNCHANGED exceptFix

\* fixer.ts 242, 252, 326: retrieveContext or chat throws
FixGenerateFail ==
    /\ fpc = "chat"
    /\ fpc' = "failed"
    /\ UNCHANGED <<fixFn, disk, originalCode, fixedCode, answer, writes>>
    /\ UNCHANGED exceptFix

\* fixer.ts 274-279, 284-286; 345-350, 355-357: the user answers the prompt
FixAnswer(a) ==
    /\ fpc = "prompt"
    /\ answer' = a
    /\ fpc' = IF Accepted(a) THEN "backup" ELSE "done"
    /\ UNCHANGED <<fixFn, disk, originalCode, fixedCode, writes>>
    /\ UNCHANGED exceptFix

\* fixer.ts 280-281, 351-352: the backup is written
FixBackup ==
    /\ fpc = "backup"
    /\ disk' = [disk EXCEPT !.bak = originalCode]
    /\ writes' = Append(writes, [path |-> "bak", content |-> originalCode])
    /\ fpc' = "apply"
    /\ UNCHANGED <<fixFn, originalCode, fixedCode, answer>>
    /\ UNCHANGED exceptFix

\* fixer.ts 281, 352: writing the backup fails and the error leaves the function
FixBackupFail ==
    /\ fpc = "backup"
    /\ fpc' = "failed"
    /\ UNCHANGED <<fixFn, disk, originalCode, fixedCode, answer, writes>>
    /\ UNCHANGED exceptFix

\* fixer.ts 282, 353: the target is overwritten
FixApply ==
    /\ fpc = "apply"
    /\ disk' = [disk EXCEPT !.file = withNewline(fixedCode)]
    /\ writes' = Append(writes, [path |-> "file", content |-> withNewline(fixedCode)])
    /\ fpc' = "done"
    /\ UNCHANGED <<fixFn, originalCode, fixedCode, answer>>
    /\ UNCHANGED exceptFix

\* fixer.ts 282, 353: writing the target fails
FixApplyFail ==
    /\ fpc = "apply"
    /\ fpc' = "failed"
    /\ UNCHANGED <<fixFn, disk, originalCode, fixedCode, answer, writes>>
    /\ UNCHANGED exceptFix

FixIdle ==
    /\ fixFn = "none"
    /\ disk = [file |-> NoFile, bak |-> NoFile]
    /\ originalCode = NoCode
    /\ fixedCode = NoCode
    /\ answer = "none"
    /\ writes = <<>>
    /\ fpc = "idle"

(***************************************************************************)
(* startChat (reviewer.ts 151-344; chat.ts 41-164 is the earlier version   *)
(* of the same loop, with the constant MAX_HISTORY in place of             *)
(* config.contextWindow and without /model).  A message is its role and    *)
(* the number of the input line it belongs to.                             *)
(***************************************************************************)
MaxInputs == 4
MaxWindow == 3

\* config.ts 19-28, 40-70: the value is taken from the file or the
\* environment as it is; any number can be configured
ContextWindows == 0 .. MaxWindow

\* Array.prototype.slice(start) with one argument: a negative start counts
\* from the end, and -0 is 0
slice(arr, start) ==
    LET len == Len(arr)
        from == IF start < 0 THEN Max(len + start, 0) ELSE Min(start, len)
    IN  [i \in 1 .. len - from |-> arr[from + i]]

\* reviewer.ts 299: conversationHistory.slice(-config.contextWindow)
historyFor(history, window) == slice(history, 0 - window)

SlashCommands == {"/help", "/model", "/context", "/fix", "/unknown"}

\* reviewer.ts 185: an empty line
ChatBlank ==
    /\ chatpc = "prompt"
    /\ inputs < MaxInputs
    /\ inputs' = inputs + 1
    /\ UNCHANGED <<contextWindow, conversationHistory, historySlice, chatpc>>
    /\ UNCHANGED exceptChat

\* reviewer.ts 192-199: /quit and /exit; 179-181: the input has ended
ChatQuit ==
    /\ chatpc = "prompt"
    /\ inputs < MaxInputs
    /\ inputs' = inputs + 1
    /\ chatpc' = "closed"
    /\ UNCHANGED <<contextWindow, conversationHistory, historySlice>>
    /\ UNCHANGED exceptChat

\* reviewer.ts 227-232
ChatClear ==
    /\ chatpc = "prompt"
    /\ inputs < MaxInputs
    /\ inputs' = inputs + 1
    /\ conversationHistory' = <<>>
    /\ UNCHANGED <<contextWindow, historySlice, chatpc>>
    /\ UNCHANGED exceptChat

\* reviewer.ts 201-225, 234-279: /help, /model, /context, an unknown
\* command, and /fix, which reads the history (fixer.ts 322) and no more
ChatCommand(cmd) ==
    /\ chatpc = "prompt"
    /\ inputs < MaxInputs
    /\ inputs' = inputs + 1
    /\ UNCHANGED <<contextWindow, conversationHistory, historySlice, chatpc>>
    /\ UNCHANGED exceptChat

\* reviewer.ts 284-308: a question; the context is retrieved and the
\* request is built
ChatAsk ==
    /\ chatpc = "prompt"
    /\ inputs < MaxInputs
    /\ inputs' = inputs + 1
    /\ historySlice' = historyFor(conversationHistory, contextWindow)
    /\ chatpc' = "stream"
    /\ UNCHANGED <<contextWindow, conversationHistory>>
    /\ UNCHANGED exceptChat

\* reviewer.ts 289, 337-340: retrieveContext throws
ChatRetrieveFail ==
    /\ chatpc = "prompt"
    /\ inputs < MaxInputs
    /\ inputs' = inputs + 1
    /\ UNCHANGED <<contextWindow, conversationHistory, historySlice, chatpc>>
    /\ UNCHANGED exceptChat

ChatStreamDone_UserOnly ==
    /\ chatpc = "stream"
    /\ conversationHistory' = Append(conversationHistory, [role |-> "user", input |-> inputs])
    /\ chatpc' = "prompt"
    /\ UNCHANGED <<contextWindow, historySlice, inputs>>
    /\ UNCHANGED exceptChat

\* reviewer.ts 315-336: the stream has ended and the exchange is saved
ChatStreamDone ==
    /\ chatpc = "stream"
    /\ conversationHistory' =
           conversationHistory \o <<[role |-> "user", input |-> inputs],
                                    [role |-> "assistant", input |-> inputs]>>
    /\ chatpc' = "prompt"
    /\ UNCHANGED <<contextWindow, historySlice, inputs>>
    /\ UNCHANGED exceptChat

\* reviewer.ts 315, 337-340: chatStream throws, before or between tokens
ChatStreamFail ==
    /\ chatpc = "stream"
    /\ chatpc' = "prompt"
    /\ UNCHANGED <<contextWindow, conversationHistory, historySlice, inputs>>
    /\ UNCHANGED exceptChat

ChatIdle ==
    /\ contextWindow = 0
    /\ conversationHistory = <<>>
    /\ historySlice = <<>>
    /\ inputs = 0
    /\ chatpc = "idle"

ChunkIdle ==
    /\ lines = [n |-> 0, boundary |-> {}, filler |-> "code"]
    /\ chunkStart = 0
    /\ chunks = <<>>
    /\ cpc = "done"

TrainIdle ==
    /\ fsys = [f \in Paths |-> NoFile]
    /\ manifest = NoFile
    /\ index = [created |-> FALSE, items |-> <<>>]
    /\ run = NoRun
    /\ tpc = "idle"
    /\ hist = [runs |-> 0, env |-> 0, changed |-> FALSE, quiet |-> FALSE, savedBy |-> 0]

\* the trees before the first run: any files, none modified yet
InitialTrees == [Paths -> {st \in FileStates : st.kind = "file" => st.mtime = 1}]

\* nothing has been trained yet
Init ==
    /\ fsys \in InitialTrees
    /\ manifest = NoFile
    /\ index = [created |-> FALSE, items |-> <<>>]
    /\ run = NoRun
    /\ tpc = "idle"
    /\ hist = [runs |-> 0, env |-> 0, changed |-> FALSE, quiet |-> FALSE, savedBy |-> 0]
    /\ ChunkIdle
    /\ QueryIdle
    /\ EmbedIdle
    /\ StoreIdle
    /\ ChunkAllIdle
    /\ ClassifyIdle
    /\ FixIdle
    /\ ChatIdle

Next ==
    \/ \E force \in BOOLEAN : TrainBegin(force)
    \/ TrainDiscover
    \/ TrainChunk
    \/ TrainEmbedBatch
    \/ TrainEmbedFail
    \/ TrainSave
    \/ \E f \in Paths : WriteFile(f)
    \/ \E f \in Paths : RemoveFile(f)
    \/ \E k \in {"garbage", "nofiles"} : DamageManifest(k)

Spec == Init /\ [][Next]_vars

ChunkInit ==
    /\ lines \in Files(MaxMarks)
    /\ chunkStart = 0
    /\ chunks = <<>>
    /\ cpc = "run"
    /\ TrainIdle
    /\ QueryIdle
    /\ EmbedIdle
    /\ StoreIdle
    /\ ChunkAllIdle
    /\ ClassifyIdle
    /\ FixIdle
    /\ ChatIdle

ChunkNext == ChunkSmallFile \/ ChunkIter \/ ChunkReturn

ChunkSpec == ChunkInit /\ [][ChunkNext]_vars

FairChunkInit ==
    /\ lines \in Files(MaxFairMarks)
    /\ chunkStart = 0
    /\ chunks = <<>>
    /\ cpc = "run"
    /\ TrainIdle
    /\ QueryIdle
    /\ EmbedIdle
    /\ StoreIdle
    /\ ChunkAllIdle
    /\ ClassifyIdle
    /\ FixIdle
    /\ ChatIdle

\* chunkFile is a sequential loop: it keeps taking steps until it returns
FairChunkSpec == FairChunkInit /\ [][ChunkNext]_vars /\ WF_vars(ChunkNext)

\* the index of scenario D: six code items with the scores .9 .. .4 and three
\* knowledge items with the scores .95, .3, .2, in hundredths
ScenarioD ==
    LET code(s, l) == [type |-> "code", score |-> s, filePath |-> "a.ts", startLine |-> l]
        know(s) == [type |-> "knowledge", score |-> s, filePath |-> "none", startLine |-> 0]
    IN  <<know(95), code(90, 1), code(80, 36), code(70, 1), code(60, 36),
          code(50, 1), code(40, 36), know(30), know(20)>>

RetrieveInit ==
    /\ \/ /\ ropts \in [topK : 0 .. MaxTopK, type : {"code", "knowledge", "both"}]
          /\ ranking \in Rankings(CodeItems({"a.ts"}) \cup KnowledgeItems, MaxHits, MaxScore)
       \/ /\ ropts = [topK |-> 6, type |-> "both"]
          /\ ranking = ScenarioD
    /\ queries = <<>>
    /\ codeResults = <<>>
    /\ knowledgeResults = <<>>
    /\ result = <<>>
    /\ sections = <<>>
    /\ rpc = "start"
    /\ ChunkIdle
    /\ TrainIdle
    /\ EmbedIdle
    /\ StoreIdle
    /\ ChunkAllIdle
    /\ ClassifyIdle
    /\ FixIdle
    /\ ChatIdle

RetrieveNext == RetrieveSingle \/ RetrieveQueryCode \/ RetrieveQueryKnowledge \/ RetrieveMerge

RetrieveSpec == RetrieveInit /\ [][RetrieveNext]_vars

\* the index of the grouping retriever holds code items only
GroupInit ==
    /\ ropts \in [topK : 0 .. MaxTopK, type : {"code"}]
    /\ ranking \in Rankings(CodeItems({"a.ts", "b.ts"}), MaxHits, MaxScore)
    /\ queries = <<>>
    /\ codeResults = <<>>
    /\ knowledgeResults = <<>>
    /\ result = <<>>
    /\ sections = <<>>
    /\ rpc = "start"
    /\ ChunkIdle
    /\ TrainIdle
    /\ EmbedIdle
    /\ StoreIdle
    /\ ChunkAllIdle
    /\ ClassifyIdle
    /\ FixIdle
    /\ ChatIdle

GroupNext == GroupQuery \/ GroupReturn \/ FormatContext

GroupSpec == GroupInit /\ [][GroupNext]_vars

EmbedInit ==
    /\ texts \in 0 .. MaxTexts
    /\ batches = <<>>
    /\ gi = 0
    /\ inFlight = {}
    /\ responses = <<>>
    /\ completion = <<>>
    /\ allEmbeddings = <<>>
    /\ epc = "start"
    /\ ChunkIdle
    /\ TrainIdle
    /\ QueryIdle
    /\ StoreIdle
    /\ ChunkAllIdle
    /\ ClassifyIdle
    /\ FixIdle
    /\ ChatIdle

EmbedNext ==
    \/ EmbedSplit
    \/ EmbedSubmit
    \/ \E b \in inFlight : EmbedRespond(b)
    \/ \E b \in inFlight : EmbedReject(b)
    \/ EmbedWrite
    \/ EmbedReturn

EmbedSpec == EmbedInit /\ [][EmbedNext]_vars

\* an existing index, empty or holding the items of earlier runs
StoreInit ==
    /\ bchunks \in 0 .. MaxBatchChunks
    /\ bi = 0
    /\ bj = 0
    /\ store \in [stored : {0, 7}, open : {FALSE}, staged : {0}]
    /\ calls = NoCalls
    /\ bpc = "loop"
    /\ ChunkIdle
    /\ TrainIdle
    /\ QueryIdle
    /\ EmbedIdle
    /\ ChunkAllIdle
    /\ ClassifyIdle
    /\ FixIdle
    /\ ChatIdle

StoreNext == BatchCall \/ AddBegin \/ AddInsert \/ AddInsertFail \/ AddEnd \/ BatchDone

StoreSpec == StoreInit /\ [][StoreNext]_vars

ChunkAllInit ==
    /\ fileList \in FileLists(1)
    /\ fi = 0
    /\ allChunks = <<>>
    /\ apc = "loop"
    /\ ChunkIdle
    /\ TrainIdle
    /\ QueryIdle
    /\ EmbedIdle
    /\ StoreIdle
    /\ ClassifyIdle
    /\ FixIdle
    /\ ChatIdle

ChunkAllNext == ChunkAllRead \/ ChunkAllSkip \/ ChunkAllReturn

ChunkAllSpec == ChunkAllInit /\ [][ChunkAllNext]_vars

ClassifyInit ==
    /\ clines \in ChunkLineSeqs
    /\ chunkKind = "none"
    /\ kpc = "start"
    /\ ChunkIdle
    /\ TrainIdle
    /\ QueryIdle
    /\ EmbedIdle
    /\ StoreIdle
    /\ ChunkAllIdle
    /\ FixIdle
    /\ ChatIdle

ClassifyNext == Classify

ClassifySpec == ClassifyInit /\ [][ClassifyNext]_vars

\* the target exists or not, and an earlier fix may have left a backup
FixInit ==
    /\ fixFn \in {"fixFile", "fixFileInteractive"}
    /\ disk \in [file : Codes \cup {NoFile}, bak : {NoFile, OldBackup}]
    /\ originalCode = NoCode
    /\ fixedCode = NoCode
    /\ answer = "none"
    /\ writes = <<>>
    /\ fpc = "start"
    /\ ChunkIdle
    /\ TrainIdle
    /\ QueryIdle
    /\ EmbedIdle
    /\ StoreIdle
    /\ ChunkAllIdle
    /\ ClassifyIdle
    /\ ChatIdle

FixNext ==
    \/ FixRead
    \/ FixReadFail
    \/ \E response \in Codes : FixGenerate(response)
    \/ FixGenerateFail
    \/ \E a \in Answers : FixAnswer(a)
    \/ FixBackup
    \/ FixBackupFail
    \/ FixApply
    \/ FixApplyFail

FixSpec == FixInit /\ [][FixNext]_vars

ChatInit ==
    /\ contextWindow \in ContextWindows
    /\ conversationHistory = <<>>
    /\ historySlice = <<>>
    /\ inputs = 0
    /\ chatpc = "prompt"
    /\ ChunkIdle
    /\ TrainIdle
    /\ QueryIdle
    /\ EmbedIdle
    /\ StoreIdle
    /\ ChunkAllIdle
    /\ ClassifyIdle
    /\ FixIdle

ChatNext ==
    \/ ChatBlank
    \/ ChatQuit
    \/ ChatClear
    \/ \E cmd \in SlashCommands : ChatCommand(cmd)
    \/ ChatAsk
    \/ ChatRetrieveFail
    \/ ChatStreamDone
    \/ ChatStreamFail

ChatSpec == ChatInit /\ [][ChatNext]_vars

(***************************************************************************)
(* Statements about chunkFile                                              *)
(***************************************************************************)
ChunkLen(c) == c.endLine - c.startLine + 1

\* the (startLine, endLine) pairs of the chunks, in order
Ranges(cs) == [i \in 1 .. Len(cs) |-> <<cs[i].startLine, cs[i].endLine>>]

\* C1: a 100-line file without boundary lines yields exactly the three chunks
\* (1,40), (36,75), (71,100), in that order.
C1_ScenarioA ==
    (cpc = "done" /\ Length(lines) = 100 /\ lines.boundary = {})
        => Ranges(chunks) = <<<<1, 40>>, <<36, 75>>, <<71, 100>>>>

\* C2: every chunk but the last emitted has TARGET..MAX lines when a boundary
\* set its end and exactly TARGET lines otherwise; every chunk has >= MIN lines.
C2_SizeBound ==
    cpc = "done" =>
        \A i \in 1 .. Len(chunks) :
            /\ ChunkLen(chunks[i]) >= MIN_CHUNK_LINES
            /\ i < Len(chunks) =>
                   IF chunks[i].split
                   THEN /\ ChunkLen(chunks[i]) >= TARGET_CHUNK_LINES
                        /\ ChunkLen(chunks[i]) <= MAX_CHUNK_LINES
                   ELSE ChunkLen(chunks[i]) = TARGET_CHUNK_LINES

\* C3: consecutive chunks overlap by OVERLAP lines: the 0-based start of chunk
\* i+1 is the exclusive end of chunk i minus OVERLAP, or that end itself when
\* the subtraction would not advance past the start of chunk i.
C3_Overlap ==
    \A i \in 1 .. (Len(chunks) - 1) :
        LET start == chunks[i].startLine - 1
            end == chunks[i].endLine
            nextStart == chunks[i + 1].startLine - 1
        IN  IF end - OVERLAP_LINES > start
            THEN nextStart = end - OVERLAP_LINES
            ELSE nextStart = end

C3_Witness ==
    /\ cpc = "done"
    /\ Len(chunks) >= 3
    /\ chunks[1].split
    /\ ~chunks[2].split

\* C4: the loop of chunkFile terminates: every iteration strictly increases
\* chunkStart, and the loop is left with chunkStart >= N.
C4_Terminates ==
    /\ [][ChunkIter => chunkStart' > chunkStart]_vars
    /\ [](cpc = "done" /\ Length(lines) > TARGET_CHUNK_LINES => chunkStart >= Length(lines))
    /\ <>(cpc = "done")

\* a run whose last chunk had at most OVERLAP lines, where only the guard advances
C4_Witness ==
    /\ cpc = "done"
    /\ Len(chunks) >= 2
    /\ ChunkLen(chunks[Len(chunks)]) <= OVERLAP_LINES
    /\ chunkStart = Length(lines)

(***************************************************************************)
(* Statements about train                                                  *)
(***************************************************************************)
IsPrefix(p, q) == Len(p) <= Len(q) /\ SubSeq(q, 1, Len(p)) = p

\* a step of the train call, as opposed to a change of the tree
TrainStep == tpc # "idle" \/ tpc' # "idle"

\* C5: after a successful run, a non-forced run over the unchanged tree chunks
\* no file, inserts nothing, ends without error and leaves the manifest as it is.
\* (hist.quiet: a run has ended successfully and neither the tree nor the
\* manifest file has changed since that run began.)
C5_IncrementalNoOp ==
    [][(TrainStep /\ hist.quiet /\ hist'.quiet /\ ~run'.force)
          => /\ index' = index
             /\ manifest' = manifest
             /\ run'.status # "error"
             /\ run'.chunked = <<>> /\ run'.chunks = <<>>
             /\ tpc' \in {"discover", "idle"}]_vars

C5_Witness ==
    /\ tpc = "idle" /\ hist.env = 0 /\ hist.quiet
    /\ run.kind = "run" /\ run.id = 2 /\ ~run.force /\ run.status = "ok"
    /\ hist.savedBy = 1
    /\ Len(run.files) = 2 /\ run.filesToProcess = <<>>
    /\ Count(index.items) = 2 * LargeChunks

\* C6: a non-forced run that loaded a manifest processes exactly the discovered
\* files that have no entry or whose mtime differs from their entry's; a run
\* without manifest processes every discovered file; only the files to process
\* are chunked and only their chunks are inserted.
C6_Partition ==
    [][/\ (tpc = "discover" /\ tpc' # "discover" /\ run'.error = "none") =>
            \A f \in Paths :
                (\E i \in 1 .. Len(run'.filesToProcess) : run'.filesToProcess[i] = f)
                  <=> /\ fsys[f].kind = "file"
                      /\ \/ run.manifest = Null
                         \/ f \notin DOMAIN run.manifest.files
                         \/ run.manifest.files[f].mtime # fsys[f].mtime
       /\ (tpc = "chunk" /\ tpc' # "chunk") =>
            /\ run'.chunked = run.filesToProcess
            /\ \A i \in 1 .. Len(run'.chunks) :
                   run'.chunks[i].filePath \in SeqToSet(run.filesToProcess)
       /\ (tpc = "embed") =>
            \A i \in (Len(index.items) + 1) .. Len(index'.items) :
                index'.items[i].filePath \in SeqToSet(run.filesToProcess)]_vars

\* one file unchanged and skipped, the other modified since its entry and processed
C6_Witness ==
    /\ tpc = "idle" /\ run.kind = "run" /\ run.status = "ok"
    /\ ~run.force /\ run.manifest # Null
    /\ run.files = <<"a.ts", "b.ts">> /\ run.filesToProcess = <<"b.ts">>
    /\ "b.ts" \in DOMAIN run.manifest.files
    /\ fsys["b.ts"].kind = "file"
    /\ \E i \in 1 .. Len(index.items) :
          /\ index.items[i].filePath = "b.ts"
          /\ index.items[i].content = fsys["b.ts"].content

\* the entry train writes for a processed file
FreshEntry(f) ==
    [mtime |-> fsys[f].mtime,
     chunkCount |-> CountFor(run.chunks, f)]

\* the files this run found unchanged
Unchanged ==
    IF run.isIncremental
    THEN SeqToSet(run.files) \ SeqToSet(run.filesToProcess)
    ELSE {}

\* a step in which train saves the manifest
Saves == tpc = "save" /\ run'.status = "ok"

\* C7 as stated: the saved manifest holds the previous entries of the unchanged
\* files, a fresh entry for each processed file, and no other entry.
C7_Claim ==
    [][Saves =>
          /\ manifest'.kind = "ok"
          /\ DOMAIN manifest'.files = Unchanged \cup SeqToSet(run.filesToProcess)
          /\ \A f \in Unchanged : manifest'.files[f] = run.manifest.files[f]
          /\ \A f \in SeqToSet(run.filesToProcess) : manifest'.files[f] = FreshEntry(f)]_vars

\* the entries of the manifest this run loaded that it did not process
Carried ==
    IF run.manifest # Null
    THEN DOMAIN run.manifest.files \ SeqToSet(run.filesToProcess)
    ELSE {}

\* C7 amended: the saved manifest holds every entry of the manifest the run
\* loaded whose path was not processed, verbatim (those of the unchanged files
\* and those of paths no longer in the tree), and a fresh entry for each
\* processed file, and no other entry.
C7_ManifestUnion ==
    [][Saves =>
          /\ manifest'.kind = "ok"
          /\ DOMAIN manifest'.files = Carried \cup SeqToSet(run.filesToProcess)
          /\ Unchanged \subseteq Carried
          /\ \A f \in Carried : manifest'.files[f] = run.manifest.files[f]
          /\ \A f \in SeqToSet(run.filesToProcess) : manifest'.files[f] = FreshEntry(f)]_vars

\* a.ts unchanged and carried over, b.ts new and processed
C7_Witness ==
    /\ tpc = "idle" /\ run.kind = "run" /\ run.status = "ok" /\ hist.savedBy = run.id
    /\ run.isIncremental
    /\ run.files = <<"a.ts", "b.ts">> /\ run.filesToProcess = <<"b.ts">>
    /\ DOMAIN run.manifest.files = {"a.ts"}
    /\ manifest.kind = "ok" /\ DOMAIN manifest.files = {"a.ts", "b.ts"}
    /\ manifest.files["a.ts"] = run.manifest.files["a.ts"]

\* C8: a non-forced run that finds the manifest unreadable, not JSON or not a
\* manifest goes on as a full run: it does not fail on the manifest and
\* processes every discovered file.
C8_Claim ==
    (/\ run.kind = "run" /\ ~run.force /\ run.initialized
     /\ tpc # "discover"
     /\ (run.manifest = Null \/ run.manifest.kind # "ok"))
        => /\ run.error # "TypeError"
           /\ run.filesToProcess = run.files

\* C9: once a forced run has recreated the index, the persisted manifest holds
\* no entries written by an earlier run, whether the run completes or aborts.
C9_Claim ==
    (run.kind = "run" /\ run.force /\ manifest.kind = "ok")
        => hist.savedBy = run.id

\* C10: a non-forced run only inserts into the index: every stored item stays,
\* unchanged and in place.
C10_InsertOnly ==
    [][(run'.kind = "run" /\ ~run'.force) => IsPrefix(index.items, index'.items)]_vars

\* after two non-forced runs the index holds the old and the new chunks of the
\* modified a.ts and the chunks of b.ts, which has been removed
C10_Witness ==
    /\ tpc = "idle" /\ run.kind = "run" /\ run.id = 2 /\ ~run.force /\ run.status = "ok"
    /\ run.isIncremental /\ run.filesToProcess = <<"a.ts">>
    /\ "a.ts" \in DOMAIN run.manifest.files
    /\ fsys["b.ts"].kind = "none"
    /\ CountFor(index.items, "a.ts") = 2 * LargeChunks
    /\ CountFor(index.items, "b.ts") = LargeChunks

(***************************************************************************)
(* Statements about retrieveContext                                        *)
(***************************************************************************)
\* the number of entries of q that satisfy Test
CountIf(q, Test(_)) == Cardinality({i \in 1 .. Len(q) : Test(q[i])})

NonIncreasing(q) == \A i \in 1 .. (Len(q) - 1) : q[i].score >= q[i + 1].score

\* C11: in mode "both" the returned list has at most topK entries and its
\* scores are non-increasing from first to last.
C11_MergeBound ==
    (rpc = "done" /\ ropts.type = "both")
        => /\ Len(result) <= ropts.topK
           /\ NonIncreasing(result)

\* a knowledge item outranks every code item and the merged list is cut
C11_Witness ==
    /\ rpc = "done" /\ ropts.type = "both"
    /\ Len(codeResults) + Len(knowledgeResults) > ropts.topK
    /\ Len(result) = ropts.topK /\ ropts.topK >= 2
    /\ result[1].type = "knowledge"
    /\ result[1].score > result[2].score

\* q holds the k best-scoring entries of p: as many as p allows, each of them
\* an entry of p, and at every score as many as p has, up to k
IsTopOf(q, p, k) ==
    /\ Len(q) = Min(k, Len(p))
    /\ \A i \in 1 .. Len(q) :
           CountIf(q, LAMBDA x : x = q[i]) <= CountIf(p, LAMBDA x : x = q[i])
    /\ \A i \in 1 .. Len(p) :
           CountIf(q, LAMBDA x : x.score >= p[i].score)
               = Min(k, CountIf(p, LAMBDA x : x.score >= p[i].score))

C13_Claim ==
    rpc = "done" =>
        \A i, j \in 1 .. Len(result) :
            (/\ i < j
             /\ result[i].type = "code" /\ result[j].type = "code"
             /\ result[i].filePath = result[j].filePath)
                => result[i].startLine <= result[j].startLine

FilesOf(q) == {q[i].filePath : i \in 1 .. Len(q)}

\* the place of the first entry of file f in q
FirstAt(q, f) == CHOOSE i \in 1 .. Len(q) : q[i].filePath = f /\ \A j \in 1 .. (i - 1) : q[j].filePath # f

\* C14: in the grouped output the entries of one file are contiguous and the
\* files come in the order in which each one's first entry stood in the
\* score-ordered list the index returned; formatContext builds one section
\* per file in that order.
C14_GroupOrder ==
    /\ rpc \in {"done", "formatted"} =>
          /\ Len(result) = Len(codeResults)
          /\ FilesOf(result) = FilesOf(codeResults)
          /\ \A i, k \in 1 .. Len(result) :
                 (i < k /\ result[i].filePath = result[k].filePath)
                     => \A j \in i .. k : result[j].filePath = result[i].filePath
          /\ \A f, g \in FilesOf(result) :
                 FirstAt(result, f) < FirstAt(result, g)
                     <=> FirstAt(codeResults, f) < FirstAt(codeResults, g)
    /\ rpc = "formatted" =>
          /\ Len(sections) = Cardinality(FilesOf(codeResults))
          /\ \A a, b \in 1 .. Len(sections) :
                 a < b => FirstAt(codeResults, sections[a].filePath)
                              < FirstAt(codeResults, sections[b].filePath)

\* the index answers a.ts, b.ts, a.ts, the later chunk of a.ts ranked first
C14_Witness ==
    /\ rpc = "formatted"
    /\ Len(codeResults) = 3
    /\ codeResults[1].filePath = "a.ts" /\ codeResults[2].filePath = "b.ts"
    /\ codeResults[3].filePath = "a.ts"
    /\ codeResults[1].startLine > codeResults[3].startLine
    /\ result[2].filePath = "a.ts" /\ result[3].filePath = "b.ts"
    /\ Len(sections) = 2

(***************************************************************************)
(* Statements about embedTexts                                             *)
(***************************************************************************)
\* C15: whatever the order in which the requests are answered, the returned
\* array has the length of the input, its entry i is the embedding of text i,
\* and it is the array the one-batch-at-a-time embedTexts returns.
C15_OrderPreserving ==
    epc = "done" =>
        /\ DOMAIN allEmbeddings = 0 .. (texts - 1)
        /\ \A i \in 0 .. (texts - 1) : allEmbeddings[i] = Embedding(i)
        /\ [i \in 1 .. texts |-> allEmbeddings[i - 1]] = embedTextsSequential(texts, 0, <<>>)

\* three batches in flight together, answered last batch first, then a
\* second group
C15_Witness ==
    /\ epc = "done"
    /\ texts > CONCURRENCY * BATCH_SIZE
    /\ completion = <<3, 2, 1, 4>>

\* C16: at most CONCURRENCY requests are in flight at any moment, a batch
\* holds at most BATCH_SIZE texts, and requests are sent only when no request
\* of an earlier group is still in flight.
C16_BoundedConcurrency ==
    /\ [](Cardinality(inFlight) <= CONCURRENCY)
    /\ [](\A b \in 1 .. Len(batches) :
             batches[b].length >= 1 /\ batches[b].length <= BATCH_SIZE)
    /\ [][inFlight' \ inFlight # {} => inFlight = {}]_vars

\* the second group is in flight, the three requests of the first answered
C16_Witness ==
    /\ epc = "await"
    /\ gi = CONCURRENCY
    /\ inFlight = {4}
    /\ Len(completion) = 3
    /\ batches[1].length = BATCH_SIZE

(***************************************************************************)
(* Statements about the index writes and the failures of train             *)
(***************************************************************************)
\* C17: addItemsBatch calls beginUpdate once before its first insert and
\* endUpdate once after its last, every insert of the batch falls between the
\* two, and the index changes in no step of train outside such a bracket.
C17_SingleTransaction ==
    /\ [](calls.beginUpdate <= 1 /\ calls.endUpdate <= 1)
    /\ [][calls'.insertItem > calls.insertItem
              => /\ store.open
                 /\ calls.beginUpdate = 1 /\ calls.endUpdate = 0]_vars
    /\ [][calls'.endUpdate > calls.endUpdate
              => /\ calls.beginUpdate = 1
                 /\ calls.insertItem = BatchLength
                 /\ store'.stored = store.stored + BatchLength
                 /\ ~store'.open]_vars
    /\ [][store'.stored # store.stored
              => /\ store.open
                 /\ calls'.endUpdate = 1]_vars
    /\ [](bpc = "done" => ~store.open /\ calls.beginUpdate = calls.endUpdate)

\* two batches written, the second one shorter, over an index that held items
C17_Witness ==
    /\ bpc = "done"
    /\ bchunks > EMBED_BATCH_SIZE
    /\ store.stored = 7 + bchunks
    /\ calls = [beginUpdate |-> 1, insertItem |-> bchunks - EMBED_BATCH_SIZE, endUpdate |-> 1]

\* C18: a failing embedding call or index write ends the run with the error:
\* the batch is not tried again, and the run embeds and inserts nothing more.
C18_FailureAborts ==
    /\ [][(tpc = "embed" /\ run' # run /\ index' = index)
              => /\ tpc' = "idle"
                 /\ run'.status = "error" /\ run'.error = "EmbedOrIndex"]_vars
    /\ [][(run.kind = "run" /\ run.status = "error" /\ run'.kind = "run" /\ run'.id = run.id)
              => /\ index' = index
                 /\ run' = run
                 /\ tpc' = "idle"]_vars

\* the second batch of a run failed: the first batch is in the index, the
\* manifest has not been written
C18_Witness ==
    /\ tpc = "idle" /\ run.kind = "run" /\ run.id = 1
    /\ run.status = "error" /\ run.error = "EmbedOrIndex"
    /\ Count(index.items) = EMBED_BATCH_SIZE
    /\ manifest.kind = "none"

\* the tree in which the readable files of a list stand, and their paths
ReadableTree(fl) ==
    [p \in 1 .. MaxFiles |->
        IF \E k \in 1 .. Len(fl) : fl[k].path = p /\ fl[k].readable
        THEN LET k == CHOOSE k \in 1 .. Len(fl) : fl[k].path = p
             IN  [kind |-> "file", mtime |-> 1, content |-> fl[k].content]
        ELSE NoFile]

ReadablePaths(fl) ==
    LET rs == SelectSeq(fl, LAMBDA e : e.readable)
    IN  [k \in 1 .. Len(rs) |-> rs[k].path]

\* C19: chunkAllFiles visits every file; a file that cannot be read gives no
\* chunk, and the chunks returned are those, in the same order, that the list
\* without the unreadable files gives.
C19_SkipUnreadable ==
    apc = "done" =>
        /\ fi = Len(fileList)
        /\ \A k \in 1 .. Len(fileList) :
               CountFor(allChunks, fileList[k].path)
                   = IF fileList[k].readable THEN ChunkCount(fileList[k].content) ELSE 0
        /\ \A a, b \in 1 .. Len(allChunks) :
               a < b => allChunks[a].filePath < allChunks[b].filePath
        /\ allChunks = chunkAllFiles(ReadableTree(fileList), ReadablePaths(fileList))

\* an unreadable file between two files that give chunks
C19_Witness ==
    /\ apc = "done"
    /\ Len(fileList) = 3
    /\ fileList[1].readable /\ ~fileList[2].readable /\ fileList[3].readable
    /\ fileList[2].content = "large"
    /\ Len(allChunks) = 2
    /\ allChunks[1].filePath = 1 /\ allChunks[2].filePath = 3

\* C20: a file of N <= TARGET lines gives no chunk when N < MIN and the one
\* chunk (1, N) when MIN <= N.
C20_SmallFile ==
    (cpc = "done" /\ Length(lines) <= TARGET_CHUNK_LINES)
        => IF Length(lines) < MIN_CHUNK_LINES
           THEN chunks = <<>>
           ELSE Ranges(chunks) = <<<<1, Length(lines)>>>>

C20_Witness ==
    /\ cpc = "done"
    /\ Length(lines) = MIN_CHUNK_LINES
    /\ Len(chunks) = 1
    /\ chunks[1].endLine = MIN_CHUNK_LINES

(***************************************************************************)
(* Statements about classifyChunk                                          *)
(***************************************************************************)
\* the lines of the chunk that are not blank
NonBlank == {i \in 1 .. Len(clines) : ~clines[i].blank}

\* C21: classifyChunk decides by the first non-blank line of the chunk: a line
\* matching the import pattern gives imports, whatever else it matches; else a
\* line matching the class heuristic gives class; else a line matching the
\* boundary pattern gives function; else, and for a chunk of blank lines, general.
C21_Priority ==
    kpc = "done" =>
        IF NonBlank = {} THEN chunkKind = "general"
        ELSE LET l == clines[CHOOSE i \in NonBlank : \A k \in NonBlank : i <= k]
             IN  /\ l.imp => chunkKind = "imports"
                 /\ ~l.imp /\ l.cls => chunkKind = "class"
                 /\ ~l.imp /\ ~l.cls /\ l.bnd => chunkKind = "function"
                 /\ ~l.imp /\ ~l.cls /\ ~l.bnd => chunkKind = "general"

\* a chunk that opens with a blank line, then a line matching both the import
\* and the boundary pattern, has been classified imports
C21_Witness ==
    /\ kpc = "done"
    /\ Len(clines) >= 2
    /\ clines[1].blank
    /\ ~clines[2].blank /\ clines[2].imp /\ clines[2].bnd
    /\ chunkKind = "imports"


(***************************************************************************)
(* Statements about the fix command                                        *)
(***************************************************************************)
\* C22, as stated: nothing is written unless the answer is y or yes.
C22_Claim == answer \notin {"y", "yes"} => writes = <<>>

\* the answers that are y or yes in some letter case
YesInAnyCase == {"y", "Y", "yes", "Yes", "YES"}

\* C22, amended: fixFile and fixFileInteractive write nothing unless the user
\* has answered y or yes, in any letter case, at the prompt; then the first
\* write is the backup, holding the content that was read, and the second, if
\* it comes, is the target, holding the fixed code; until something is written
\* the target and the backup are as they were.
C22_AskThenBackup ==
    /\ writes # <<>> => answer \in YesInAnyCase
    /\ Len(writes) <= 2
    /\ writes # <<>> =>
           /\ writes[1] = [path |-> "bak", content |-> originalCode]
           /\ disk.bak = originalCode
    /\ Len(writes) = 2 =>
           /\ writes[2] = [path |-> "file", content |-> withNewline(fixedCode)]
           /\ disk.file = withNewline(fixedCode)
    /\ Len(writes) < 2 /\ fpc \notin {"start", "idle"} /\ disk.file # NoFile =>
           disk.file = originalCode
    /\ writes = <<>> => disk.bak \in {NoFile, OldBackup}

\* the user answered yes; the backup holds the original and the target the fix
C22_Witness ==
    /\ fpc = "done"
    /\ answer = "yes"
    /\ Len(writes) = 2
    /\ disk.bak = originalCode
    /\ disk.file = withNewline(fixedCode)
    /\ disk.file # originalCode


(***************************************************************************)
(* Statements about the chat session                                       *)
(***************************************************************************)
\* the last n messages of a history
LastMessages(history, n) ==
    [i \in 1 .. n |-> history[Len(history) - n + i]]

\* C23: the history sent with a question holds at most contextWindow messages,
\* and they are the most recent ones of the conversation.
C23_Claim ==
    chatpc = "stream" =>
        /\ Len(historySlice) <= contextWindow
        /\ historySlice =
               LastMessages(conversationHistory,
                            Min(contextWindow, Len(conversationHistory)))

\* a history is made of exchanges: a user message and the answer to it
WellPaired(history) ==
    /\ Len(history) % 2 = 0
    /\ \A i \in 1 .. Len(history) :
           IF i % 2 = 1
           THEN history[i].role = "user"
           ELSE /\ history[i].role = "assistant"
                /\ history[i].input = history[i - 1].input

\* C30: the conversation history is always a sequence of complete exchanges;
\* an answer streamed to its end appends the question and the answer, /clear
\* empties the history, and every other step, a failed retrieval or stream and
\* every other command among them, leaves it as it is.
C30_CompletePairs ==
    [][/\ WellPaired(conversationHistory')
       /\ ChatStreamDone =>
              conversationHistory' =
                  conversationHistory \o <<[role |-> "user", input |-> inputs],
                                           [role |-> "assistant", input |-> inputs]>>
       /\ ChatClear => conversationHistory' = <<>>
       /\ ~ChatStreamDone /\ ~ChatClear => UNCHANGED conversationHistory]_vars

\* two exchanges are in the history, and the question between them failed
C30_Witness ==
    /\ chatpc = "prompt"
    /\ Len(conversationHistory) = 4
    /\ conversationHistory[1].input = 1
    /\ conversationHistory[3].input = 3


(***************************************************************************)
(* Further statements about chunkFile                                      *)
(***************************************************************************)
\* the chunk ends at the first boundary line of [start + TARGET, start + MAX)
EndsAtFirstBoundary(c) ==
    LET cs == c.startLine - 1
    IN  /\ IsBoundary(lines, c.endLine)
        /\ cs + TARGET_CHUNK_LINES <= c.endLine
        /\ c.endLine < cs + MAX_CHUNK_LINES
        /\ \A i \in (cs + TARGET_CHUNK_LINES) .. (c.endLine - 1) : ~IsBoundary(lines, i)

\* C24: when the scan of an iteration finds no boundary line, the end of the
\* chunk is TARGET lines after its start, fewer than MAX, so the split at a
\* blank line is never taken; every chunk ends TARGET lines after its start, at
\* the first boundary line found before start + MAX, or at the end of the file.
C24_ForcedSplitDead ==
    /\ cpc = "run" /\ Length(lines) > TARGET_CHUNK_LINES /\ chunkStart < Length(lines) =>
           LET chunkEnd == Min(chunkStart + TARGET_CHUNK_LINES, Length(lines))
           IN  chunkEnd < Length(lines) /\ FindBestSplit(lines, chunkStart) <= 0 =>
                   /\ chunkEnd - chunkStart = TARGET_CHUNK_LINES
                   /\ chunkEnd - chunkStart < MAX_CHUNK_LINES
                   /\ ChunkEndOf(lines, chunkStart) = chunkEnd
    /\ \A k \in 1 .. Len(chunks) :
           \/ chunks[k].endLine = chunks[k].startLine - 1 + TARGET_CHUNK_LINES
           \/ EndsAtFirstBoundary(chunks[k])
           \/ chunks[k].endLine = Length(lines)

\* a file of blank lines without a boundary line, longer than MAX: its first
\* chunk ends after TARGET lines, not at a blank line before MAX
C24_Witness ==
    /\ cpc = "done"
    /\ Length(lines) > MAX_CHUNK_LINES
    /\ lines.boundary = {}
    /\ lines.filler = "blank"
    /\ Len(chunks) >= 2
    /\ chunks[1].endLine = TARGET_CHUNK_LINES


\* C28: the chunks of a file of N >= MIN lines cover it without gaps: every
\* chunk has 1 <= startLine <= endLine <= N, the first starts at line 1, the
\* last ends at line N, the start lines increase strictly, each chunk starts at
\* most one line after the end of the one before it, and every line is in a chunk.
C28_Coverage ==
    cpc = "done" /\ Length(lines) >= MIN_CHUNK_LINES =>
        /\ Len(chunks) >= 1
        /\ \A k \in 1 .. Len(chunks) :
               /\ 1 <= chunks[k].startLine
               /\ chunks[k].startLine <= chunks[k].endLine
               /\ chunks[k].endLine <= Length(lines)
        /\ chunks[1].startLine = 1
        /\ chunks[Len(chunks)].endLine = Length(lines)
        /\ \A k \in 1 .. Len(chunks) - 1 :
               /\ chunks[k].startLine < chunks[k + 1].startLine
               /\ chunks[k + 1].startLine <= chunks[k].endLine + 1
        /\ \A l \in 1 .. Length(lines) :
               \E k \in 1 .. Len(chunks) :
                   chunks[k].startLine <= l /\ l <= chunks[k].endLine

\* a file with a boundary line that ends a chunk early has been chunked into
\* three chunks or more
C28_Witness ==
    /\ cpc = "done"
    /\ Len(chunks) >= 3
    /\ chunks[1].split
    /\ chunks[1].endLine > TARGET_CHUNK_LINES


(***************************************************************************)
(* Further statements about train                                          *)
(***************************************************************************)
\* C25: between the runs, whatever runs have completed or aborted, every entry
\* of the persisted manifest is backed by the index: for a file with
\* chunkCount c the index holds at least c items of that file.
C25_Claim ==
    tpc = "idle" /\ manifest.kind = "ok" =>
        \A f \in DOMAIN manifest.files :
            CountFor(index.items, f) >= manifest.files[f].chunkCount


\* C26: the mtime saved for a processed file is that of the content that was
\* chunked: a file whose content at the save is no longer the content the run
\* chunked (it was modified in between) is taken as changed by the next
\* non-forced run.
C26_Claim ==
    [][Saves =>
          \A f \in SeqToSet(run.filesToProcess) :
              CountFor(run.chunks, f) # ChunkCount(fsys[f].content) =>
                  NeedsProcessing(manifest', fsys', f)]_vars


\* C29: a run that comes to build its manifest gives every processed file
\* that produced no chunk, unreadable or shorter than MIN lines, the entry
\* {mtime: its current mtime, chunkCount: 0}.
C29_Claim ==
    [][tpc = "save" /\ tpc' = "idle" =>
          \A f \in SeqToSet(run.filesToProcess) :
              CountFor(run.chunks, f) = 0 =>
                  /\ manifest'.kind = "ok"
                  /\ f \in DOMAIN manifest'.files
                  /\ manifest'.files[f].chunkCount = 0
                  /\ fsys[f].kind = "file" => manifest'.files[f].mtime = fsys[f].mtime]_vars

(***************************************************************************)
(* Further statements about the index writes                               *)
(***************************************************************************)
\* C27: whenever control is outside addItemsBatch, after it has returned or
\* thrown, the index has no update in progress.
C27_Claim == bpc \in {"loop", "failed", "done"} => ~store.open

=============================================================================
